---- MODULE Spec2Model ----
(***************************************************************************)
(* typeofweb/server: the request dispatcher of src/modules/router.ts.      *)
(*                                                                         *)
(* One request travels through                                             *)
(*   finalErrorGuard(routeToExpressHandler(...))  and then, when an error  *)
(*   was forwarded with next(err), through errorMiddleware.                *)
(*                                                                         *)
(* Before any request, validateRoute checks the path of every route that   *)
(* is registered and initRouter sorts the routes into the express router.  *)
(*                                                                         *)
(* The model follows the current variant of the file (the second copy,     *)
(* lines 326-661).  Collaborators that are not part of the repository's    *)
(* sources (the schema library, the cookie codec, express, the event bus)  *)
(* are modelled by their outcomes: a validation either returns or throws,  *)
(* an emit delivers the event and returns, next(err) with an error hands   *)
(* the request to the error middleware registered by initRouter.           *)
(***************************************************************************)
EXTENDS Integers, Sequences, FiniteSets, TLC

VARIABLES
    routes,      \* the routes passed to initRouter, in registration order
    router,      \* the layers of the express router, in the order they were added
    dispatched,  \* the last request given to the router and the route express called
    validation,  \* a path given to validateRoute, and what the call did
    merge,       \* two objects given to deepMerge, and what the call returned
    other,       \* the state of a second request that is in flight at the same time
    appOptions,  \* the options of the application: appOptions.cookies
    browser,     \* the client: the cookies it was given, the requests it has sent
    toolkitCall, \* the last call of a method of the request's toolkit
    plugins,     \* the registered plugins, in registration order
    pc,          \* where the request is in routeToExpressHandler / errorMiddleware
    requestId,   \* const requestId = generateRequestId()
    request,     \* the TypeOfWebRequest object (constructed after validation)
    hookState,   \* per plugin: state of the promise returned by its reduce callback
    hookErr,     \* reason of the rejected promise chain of plugins.reduce
    result,      \* originalResult, then result.value
    res,         \* the express response: headersSent, locals[CUSTOM_STATUS_CODE], status, body
    err,         \* the argument of next(err)
    log          \* observable calls, in the order they were made

routing == <<routes, router, dispatched, validation>>

\* what no step of the dispatcher for the request reads or writes
apart == <<merge, other, appOptions, browser>>

\* what belongs to one request
requestVars ==
    <<toolkitCall, plugins, pc, requestId, request, hookState, hookErr, result, res, err, log>>

vars ==
    <<routes, router, dispatched, validation, merge, other, appOptions, browser, toolkitCall,
      plugins, pc, requestId, request, hookState, hookErr, result, res, err, log>>

-----------------------------------------------------------------------------
(* Bounds *)

MaxPlugins == 3

\* routes registered before the router is built
MaxRoutes == 3

\* characters of a path given to validateRoute
MaxPathLen == 4

\* requests a client sends one after the other, each with the cookies it was given
MaxRequests == 2

\* levels of the objects given to deepMerge: 1 is an object of primitives
MaxDepth == 2

-----------------------------------------------------------------------------
(* HttpStatusCode members used by the router *)

OK == 200
NoContent == 204
BadRequest == 400
InternalServerError == 500

-----------------------------------------------------------------------------
(* Plugins *)

PluginNames == {"a", "b", "c", "d"}

\* TypeOfWebPluginInternal: a name and an optional value holding optional hooks.
\* The plugins an application may register: two with a request hook, one whose
\* value is undefined, one with a response hook only.  A list may hold the same
\* plugin, hence the same name, more than once.
PluginShapes ==
    { [name |-> "a", value |-> TRUE, request |-> TRUE, response |-> FALSE],
      [name |-> "b", value |-> TRUE, request |-> TRUE, response |-> FALSE],
      [name |-> "c", value |-> FALSE, request |-> FALSE, response |-> FALSE],
      [name |-> "d", value |-> TRUE, request |-> FALSE, response |-> TRUE] }

PluginLists == UNION { [1..n -> PluginShapes] : n \in 0..MaxPlugins }

\* !plugin?.value || typeof plugin?.value.request !== 'function'
HasRequestHook(plugin) == plugin.value /\ plugin.request

\* what a request hook may return
Metadata == {"undefined", "meta"}

\* if (requestMetadata)
Truthy(v) == v \notin {"undefined", "null", "emptyString", "zero", "false"}

NoPlugins == [n \in PluginNames |-> "unset"]

-----------------------------------------------------------------------------
(* Errors *)

NoError == [kind |-> "none", statusCode |-> 0, message |-> "", body |-> ""]

\* new HttpError(statusCode, message, body)
HttpError(statusCode, message, body) ==
    [kind |-> "HttpError", statusCode |-> statusCode, message |-> message, body |-> body]

\* a ValidationError thrown by validate(schema)(value)
ValidationError(slot) ==
    [kind |-> "ValidationError", statusCode |-> 0, message |-> "invalid", body |-> slot]

\* what user code (a plugin hook, the handler) may throw
Throwables ==
    { ValidationError("user"),
      HttpError(404, "NotFound", "nf"),
      [kind |-> "StatusError", statusCode |-> 403, message |-> "", body |-> ""],
      [kind |-> "Error", statusCode |-> 0, message |-> "boom", body |-> ""],
      [kind |-> "undefined", statusCode |-> 0, message |-> "", body |-> ""] }

EmptyObject == [kind |-> "Object", statusCode |-> 0, message |-> "", body |-> ""]

\* err.name: set by the constructor of the error's class; a plain object has none
errName(e) ==
    CASE e.kind = "ValidationError" -> "ValidationError"
      [] e.kind = "HttpError" -> "HttpError"
      [] e.kind = "Error" -> "Error"
      [] OTHER -> "undefined"

\* an error object passed on as a value (params.value, result.value, err): for a
\* ValidationError the object that holds the details, not the details themselves
ErrorObject(e) ==
    CASE e.kind = "ValidationError" /\ e.body = "params" -> "ValidationError{params}"
      [] e.kind = "ValidationError" /\ e.body = "query" -> "ValidationError{query}"
      [] e.kind = "ValidationError" /\ e.body = "payload" -> "ValidationError{payload}"
      [] e.kind = "ValidationError" -> "ValidationError{}"
      [] OTHER -> e.kind

\* HttpStatusCode[statusCode]: the name of the enum member
HttpStatusName(code) ==
    CASE code = 400 -> "BadRequest"
      [] code = 403 -> "Forbidden"
      [] code = 404 -> "NotFound"
      [] code = 500 -> "InternalServerError"
      [] OTHER -> "undefined"

\* err ?? {}
NullishCoalesce(e) == IF e.kind \in {"undefined", "null"} THEN EmptyObject ELSE e

-----------------------------------------------------------------------------
(* The log of observable calls *)

Ev(type, idx, data, code) ==
    [type |-> type, idx |-> idx, data |-> data, code |-> code,
     meta |-> NoPlugins, ts |-> 0, cookies |-> <<>>]

\* performance.now(): a clock that advances with every observable call
Now == Len(log)

Count(type) == Cardinality({ k \in 1..Len(log) : log[k].type = type })
Happened(type) == \E k \in 1..Len(log) : log[k].type = type
Pos(type) == CHOOSE k \in 1..Len(log) : log[k].type = type

-----------------------------------------------------------------------------
(* JavaScript values: a value is a map from paths (sequences of keys) to tags; the   *)
(* tag at the empty path says what the value is, "object" or a primitive             *)

Keys == {"a", "b"}
InnerKeys == {"a"}

Primitive(tag) == [p \in {<<>>} |-> tag]
Undefined == Primitive("undefined")
EmptyObj == Primitive("object")

\* typeof v === 'object' && !Array.isArray(v) && v
isObject(v) == v[<<>>] = "object"

\* Object.keys(v)
keysOf(v) == { p[1] : p \in { q \in DOMAIN v : Len(q) = 1 } }

\* the value of the own property key of an object that has it
Sub(v, key) ==
    [p \in { Tail(q) : q \in { r \in DOMAIN v : Len(r) >= 1 /\ r[1] = key } } |->
        v[<<key>> \o p]]

\* v[key]
Get(v, key) == IF key \in keysOf(v) THEN Sub(v, key) ELSE Undefined

\* the object with the properties props[key]
Object(props) ==
    [q \in {<<>>} \cup UNION { { <<key>> \o p : p \in DOMAIN props[key] } :
                                  key \in DOMAIN props } |->
        IF q = <<>> THEN "object" ELSE props[q[1]][Tail(q)]]

\* { ...v }: the own properties of an object; none for null, undefined, a number, a boolean
Spread(v) == IF isObject(v) THEN v ELSE EmptyObj

\* v ?? {}
OrEmptyObject(v) == IF v[<<>>] \in {"undefined", "null"} THEN EmptyObj ELSE v

\* deepMerge(overrides, defaults): Object.keys(defaults).reduce(..., { ...overrides })
RECURSIVE deepMerge(_, _)
deepMerge(overrides, defaults) ==
    LET seed == Spread(overrides)
        merged(key) ==
            LET defaultValue == Sub(defaults, key) IN
            IF isObject(defaultValue)
            THEN deepMerge(OrEmptyObject(Get(seed, key)), defaultValue)
            ELSE IF Get(seed, key) = Undefined THEN defaultValue ELSE Get(seed, key)
    IN Object([key \in keysOf(seed) \cup keysOf(defaults) |->
                  IF key \in keysOf(defaults) THEN merged(key) ELSE Sub(seed, key)])

\* the values of at most `depth` levels with the given primitives at their leaves: a
\* primitive, or an object with some of the keys (Keys at the outermost of MaxDepth
\* levels, InnerKeys below) whose properties are values of at most depth - 1 levels
RECURSIVE Values(_, _)
Values(depth, leaves) ==
    { Primitive(tag) : tag \in leaves } \cup
    IF depth = 0 THEN {}
    ELSE UNION { { Object(props) : props \in [keys -> Values(depth - 1, leaves)] } :
                   keys \in SUBSET (IF depth = MaxDepth THEN Keys ELSE InnerKeys) }

\* the options of a call: properties may be absent, undefined, null, a value, an object
OverrideObjects == { v \in Values(MaxDepth, {"undefined", "null", "1"}) : isObject(v) }

\* the defaults of the application: properties may be absent, null, a value, an object
DefaultObjects == { v \in Values(MaxDepth, {"null", "2"}) : isObject(v) }

NoMerge == [overrides |-> EmptyObj, defaults |-> EmptyObj, returned |-> FALSE, value |-> EmptyObj]

-----------------------------------------------------------------------------
(* Initial state: the router is built, a request arrives *)

\* a response body: nothing written yet, ended without body, or a JSON document
\* (fields: the members of an error document, with their values in name, message, body)
NoBody ==
    [shape |-> "none", fields |-> {}, value |-> "", name |-> "", message |-> "", body |-> ""]
EmptyBody ==
    [shape |-> "empty", fields |-> {}, value |-> "", name |-> "", message |-> "", body |-> ""]
JsonBody(fields, value) ==
    [shape |-> "json", fields |-> fields, value |-> value,
     name |-> "", message |-> "", body |-> ""]

\* no second request
NoOther == <<>>

\* appOptions.cookies.secret: a string of 32 characters
AppSecret == "secretA"

\* appOptions.cookies of an application that seals its cookies, or does not
AppCookies(encrypted) ==
    Object([key \in {"encrypted", "secret", "httpOnly"} |->
               CASE key = "encrypted" -> Primitive(encrypted)
                 [] key = "secret" -> Primitive(AppSecret)
                 [] OTHER -> Primitive("true")])

DefaultAppOptions == [cookies |-> AppCookies("true")]
AppOptionsUniverse == { [cookies |-> AppCookies(encrypted)] : encrypted \in {"true", "false"} }

\* a client that holds no cookie and has sent its first request
NoBrowser == [jar |-> <<>>, set |-> <<>>, sent |-> 1]

\* no method of the toolkit was called
NoCall ==
    [method |-> "none", statusCode |-> 0, name |-> "", value |-> "",
     options |-> EmptyObj, outcome |-> "none"]

\* the express response before anything was done with it
NoResponse ==
    [headersSent |-> FALSE, locals |-> 0, status |-> 0, body |-> NoBody, cookies |-> <<>>]

NoRequest ==
    [constructed |-> FALSE, id |-> "none", timestamp |-> 0,
     cookies |-> <<>>, plugins |-> NoPlugins]

NoValidation == [path |-> <<>>, outcome |-> "none"]
NoRoute == [method |-> "none", path |-> <<>>]
NoDispatch == [request |-> NoRoute, route |-> NoRoute]

\* the request has not entered the dispatcher
RequestInit ==
    /\ pc = "idle"
    /\ requestId = "none"
    /\ request = NoRequest
    /\ hookState = [i \in 1..Len(plugins) |-> "notStarted"]
    /\ hookErr = NoError
    /\ result = "none"
    /\ res = NoResponse
    /\ toolkitCall = NoCall
    /\ err = NoError
    /\ log = <<>>

Init ==
    /\ plugins \in PluginLists
    /\ RequestInit
    /\ routes = <<>> /\ router = <<>> /\ dispatched = NoDispatch
    /\ validation = NoValidation
    /\ merge = NoMerge /\ other = NoOther
    /\ appOptions = DefaultAppOptions /\ browser = NoBrowser

-----------------------------------------------------------------------------
(* next(err): express hands the request to the error middleware *)

next(e, events) ==
    /\ err' = e
    /\ pc' = "errorMiddleware"
    /\ log' = log \o events \o <<Ev("next", 0, e.kind, e.statusCode)>>

-----------------------------------------------------------------------------
(* Input validation *)

\* tryCatch(() => schema ? validate(schema)(value) : value)
tryCatch(schema, valid, slot) ==
    IF schema /\ ~valid
    THEN [_t |-> "left", value |-> ValidationError(slot)]
    ELSE [_t |-> "right", value |-> NoError]

\* const requestId = generateRequestId()
Receive ==
    /\ pc = "idle"
    /\ requestId' = "rid"
    /\ pc' = "received"
    /\ log' = Append(log, Ev("requestId", 0, "rid", 0))
    /\ UNCHANGED <<routing, apart, toolkitCall, plugins, request, hookState, hookErr, result, res, err>>

\* ValidateInput with `next(...)` not followed by `return`
ValidateInputNoReturn(at, slot, done) ==
    /\ pc = at
    /\ \E schema \in BOOLEAN, valid \in BOOLEAN :
         LET r == tryCatch(schema, valid, slot) IN
         IF r._t = "left"
         THEN /\ err' = HttpError(BadRequest, HttpStatusName(BadRequest), ErrorObject(r.value))
              /\ pc' = done
              /\ log' = log \o <<Ev("next", 0, "HttpError", BadRequest), Ev(done, 0, "", 0)>>
         ELSE /\ pc' = done
              /\ log' = Append(log, Ev(done, 0, "", 0))
              /\ err' = err
    /\ UNCHANGED <<routing, apart, toolkitCall, plugins, requestId, request, hookState, hookErr, result, res>>

\* one of the three validations: params, query, payload
ValidateInput(at, slot, done) ==
    /\ pc = at
    /\ \E schema \in BOOLEAN, valid \in BOOLEAN :
         LET r == tryCatch(schema, valid, slot) IN
         IF r._t = "left"
         THEN next(HttpError(BadRequest, HttpStatusName(BadRequest), ErrorObject(r.value)), <<>>)
         ELSE /\ pc' = done
              /\ log' = Append(log, Ev(done, 0, "", 0))
              /\ err' = err
    /\ UNCHANGED <<routing, apart, toolkitCall, plugins, requestId, request, hookState, hookErr, result, res>>

ValidateParams == ValidateInput("received", "params", "paramsValidated")
ValidateQuery == ValidateInput("paramsValidated", "query", "queryValidated")
ValidatePayload == ValidateInput("queryValidated", "payload", "payloadValidated")

-----------------------------------------------------------------------------
(* Cookies *)

CookieNames == {"sid"}

\* the values given to setCookie
CookieValues == {"v", "w"}

\* the length invariant(...) asks of options.cookies.secret
RequiredSecretLength == 32

Plain(value) == [sealed |-> FALSE, value |-> value, secret |-> ""]
seal(value, secret) == [sealed |-> TRUE, value |-> value, secret |-> secret]
isSealed(c) == c.sealed

\* unseal({ sealed, secret }) returns the value or throws
unseal(c, secret) ==
    IF c.secret = secret
    THEN [_t |-> "right", value |-> Plain(c.value)]
    ELSE [_t |-> "left", value |-> c]

InboundCookies == {Plain("v"), seal("v", AppSecret), seal("v", "secretB")}

\* req.cookies of the request followed through the whole dispatcher: a session cookie,
\* sealed by this application or by another one
CookieJars == [CookieNames -> { c \in InboundCookies : isSealed(c) }]

\* req.cookies of any request: some of three names; plain values, values sealed with the
\* application's secret, with another secret, and sealed values that were corrupted
WideCookieNames == {"sid", "theme", "lang"}
WideInboundCookies ==
    {Plain("p"), seal("s", AppSecret), seal("t", "secretB"), seal("u", "corrupted")}
WideCookieJars == UNION { [names -> WideInboundCookies] : names \in SUBSET WideCookieNames }

\* DecodeCookie with a catch block that returns nothing for the cookie
DecodeCookieDropFailed(value) ==
    IF isSealed(value)
    THEN IF unseal(value, AppSecret)._t = "right"
         THEN unseal(value, AppSecret).value
         ELSE Plain("undefined")
    ELSE value

\* the callback mapped over Object.entries(req.cookies):
\* if (typeof value === 'string' && isSealed(value)) { try { return unsealed } catch {} }
\* return [name, value]
DecodeCookie(value) ==
    IF isSealed(value) /\ unseal(value, AppSecret)._t = "right"
    THEN unseal(value, AppSecret).value
    ELSE value

\* const cookies = Object.fromEntries(await Promise.all(...)), for req.cookies in jars
DecodeCookiesOf(jars) ==
    /\ pc = "payloadValidated"
    /\ \E jar \in jars :
         /\ request' = [request EXCEPT
                           !.cookies = [n \in DOMAIN jar |-> DecodeCookie(jar[n])]]
         /\ log' = Append(log, [Ev("cookiesDecoded", 0, "", 0) EXCEPT !.cookies = jar])
    /\ pc' = "cookiesDecoded"
    /\ UNCHANGED <<routing, apart, toolkitCall, plugins, requestId, hookState, hookErr, result, res, err>>

DecodeCookies == DecodeCookiesOf(CookieJars)
DecodeAnyCookies == DecodeCookiesOf(WideCookieJars)

-----------------------------------------------------------------------------
(* The request object, the toolkit and the plugin request hooks *)

\* const request = {...}; const toolkit = createRequestToolkitFor(...);
\* plugins.reduce(...) calls every callback: one with a hook stops at `await acc`
ConstructRequest ==
    /\ pc = "cookiesDecoded"
    /\ request' = [request EXCEPT !.constructed = TRUE, !.id = requestId, !.timestamp = Now]
    /\ hookState' = [i \in 1..Len(plugins) |->
                        IF HasRequestHook(plugins[i]) THEN "awaiting" ELSE "skipped"]
    /\ pc' = "pluginsRunning"
    /\ log' = Append(log, [Ev("requestConstructed", 0, "", 0) EXCEPT !.ts = Now])
    /\ UNCHANGED <<routing, apart, toolkitCall, plugins, requestId, hookErr, result, res, err>>

\* the state of the promise returned by the reduce callback of plugin i;
\* 0 is the initial value Promise.resolve(); a callback without a hook returns acc
RECURSIVE PromiseState(_)
PromiseState(i) ==
    IF i = 0 THEN "fulfilled"
    ELSE IF hookState[i] = "skipped" THEN PromiseState(i - 1)
    ELSE IF hookState[i] \in {"fulfilled", "rejected"} THEN hookState[i]
    ELSE "pending"

\* AccSettled without `await acc`: the hook is called at once
AccSettledNoAwait(i) == i \in 1..Len(plugins)

\* await acc
AccSettled(i) == PromiseState(i - 1) = "fulfilled"

\* ReduceResult when the reduce is not awaited
ReduceResultNotAwaited == "fulfilled"

\* the promise awaited by `await plugins.reduce(..., Promise.resolve())`
ReduceResult == PromiseState(Len(plugins))

\* await acc returned: the hook of plugin i is called with (request, toolkit)
StartHook(i) ==
    /\ pc = "pluginsRunning"
    /\ hookState[i] = "awaiting"
    /\ AccSettled(i)
    /\ hookState' = [hookState EXCEPT ![i] = "running"]
    /\ log' = Append(log, Ev("hookStart", i, plugins[i].name, 0))
    /\ UNCHANGED <<routing, apart, toolkitCall, plugins, pc, requestId, request, hookErr, result, res, err>>

\* await acc threw: the callback of plugin i rejects with the same reason
AccRejected(i) ==
    /\ pc = "pluginsRunning"
    /\ hookState[i] = "awaiting"
    /\ PromiseState(i - 1) = "rejected"
    /\ hookState' = [hookState EXCEPT ![i] = "rejected"]
    /\ UNCHANGED <<routing, apart, toolkitCall, plugins, pc, requestId, request, hookErr, result, res, err, log>>

\* if (requestMetadata) request.plugins[plugin.name] = requestMetadata
WritesMetadata(requestMetadata) == Truthy(requestMetadata)

\* const requestMetadata = await pluginRequest(request, toolkit); ...
HookReturn(i) ==
    /\ pc = "pluginsRunning"
    /\ hookState[i] = "running"
    /\ \E requestMetadata \in Metadata :
         IF WritesMetadata(requestMetadata)
         THEN /\ request' = [request EXCEPT !.plugins[plugins[i].name] = requestMetadata]
              /\ log' = log \o <<Ev("hookEnd", i, requestMetadata, 0),
                                 Ev("pluginsWrite", i, plugins[i].name, 0)>>
         ELSE /\ request' = request
              /\ log' = Append(log, Ev("hookEnd", i, requestMetadata, 0))
    /\ hookState' = [hookState EXCEPT ![i] = "fulfilled"]
    /\ UNCHANGED <<routing, apart, toolkitCall, plugins, pc, requestId, hookErr, result, res, err>>

\* HookThrow in a callback that catches what the hook throws and goes on
HookThrowSwallowed(i) ==
    /\ pc = "pluginsRunning"
    /\ hookState[i] = "running"
    /\ \E e \in Throwables :
         /\ hookErr' = e
         /\ log' = Append(log, Ev("hookThrow", i, e.kind, 0))
    /\ hookState' = [hookState EXCEPT ![i] = "fulfilled"]
    /\ UNCHANGED <<routing, apart, toolkitCall, plugins, pc, requestId, request, result, res, err>>

\* the hook throws or returns a promise that rejects
HookThrow(i) ==
    /\ pc = "pluginsRunning"
    /\ hookState[i] = "running"
    /\ \E e \in Throwables :
         /\ hookErr' = e
         /\ log' = Append(log, Ev("hookThrow", i, e.kind, 0))
    /\ hookState' = [hookState EXCEPT ![i] = "rejected"]
    /\ UNCHANGED <<routing, apart, toolkitCall, plugins, pc, requestId, request, result, res, err>>

-----------------------------------------------------------------------------
(* The toolkit, and the raw response, in the hands of a hook or the handler *)

UserCodeRunning ==
    \/ pc = "handlerRunning"
    \/ pc = "pluginsRunning" /\ \E i \in 1..Len(plugins) : hookState[i] = "running"

\* setStatus that keeps the status in a variable of the module, for all requests
setStatusShared ==
    /\ UserCodeRunning
    /\ \E statusCode \in {201, 404} :
         /\ res.locals # statusCode
         /\ res' = [res EXCEPT !.locals = statusCode]
         /\ toolkitCall' = [NoCall EXCEPT !.method = "setStatus", !.statusCode = statusCode]
         /\ other' = IF other = NoOther THEN other
                     ELSE [other EXCEPT !.res.locals = statusCode]
    /\ UNCHANGED <<routing, merge, appOptions, browser, plugins, pc, requestId, request,
                   hookState, hookErr, result, err, log>>

\* toolkit.setStatus(statusCode): res.locals[CUSTOM_STATUS_CODE] = statusCode
setStatus ==
    /\ UserCodeRunning
    /\ \E statusCode \in {201, 404} :
         /\ res.locals # statusCode
         /\ res' = [res EXCEPT !.locals = statusCode]
         /\ toolkitCall' = [NoCall EXCEPT !.method = "setStatus", !.statusCode = statusCode]
    /\ UNCHANGED <<routing, apart, plugins, pc, requestId, request, hookState, hookErr, result, err, log>>

\* secret.length
length(secret) == IF secret \in {"secretA", "secretB"} THEN 32 ELSE 5

\* const { encrypted, secret, ...cookieOptions } = merged
cookieOptionsOf(merged) ==
    Object([key \in keysOf(merged) \ {"encrypted", "secret"} |-> Sub(merged, key)])

\* { ...cookieOptions, signed: false }
Unsigned(cookieOptions) ==
    Object([key \in keysOf(cookieOptions) \cup {"signed"} |->
               IF key = "signed" THEN Primitive("false") ELSE Sub(cookieOptions, key)])

\* the options a hook or a handler may pass to setCookie
CallOptions ==
    { Object([key \in DOMAIN props |-> Primitive(props[key])]) : props \in
        UNION { { f \in [keys -> {"true", "false", "secretB", "short"}] :
                    /\ "encrypted" \in keys => f["encrypted"] \in {"true", "false"}
                    /\ "secret" \in keys => f["secret"] \in {"secretB", "short"}
                    /\ "httpOnly" \in keys => f["httpOnly"] = "false" } :
                keys \in SUBSET {"encrypted", "secret", "httpOnly"} } }

\* cookieValue that is sealed with the secret of the application, whatever the call says
cookieValueAppSecret(encrypted, value, secret) ==
    IF encrypted THEN seal(value, AppSecret) ELSE Plain(value)

\* const cookieValue = encrypted ? await seal({ value, secret }) : value
cookieValue(encrypted, value, secret) ==
    IF encrypted THEN seal(value, secret) ELSE Plain(value)

\* the invariant of setCookie: !encrypted || secret.length === 32
SecretFits(encrypted, secret) == ~encrypted \/ length(secret) = RequiredSecretLength

\* setCookie without the invariant on the length of the secret
setCookieUnchecked ==
    /\ UserCodeRunning
    /\ \E name \in CookieNames, value \in CookieValues, options \in CallOptions :
         LET merged == deepMerge(options, appOptions.cookies)
             encrypted == Truthy(Get(merged, "encrypted")[<<>>])
             secret == Get(merged, "secret")[<<>>]
             call == [NoCall EXCEPT !.method = "setCookie", !.name = name,
                                    !.value = value, !.options = options]
             cookie == [value |-> cookieValue(encrypted, value, secret),
                        options |-> Unsigned(cookieOptionsOf(merged)),
                        call |-> [value |-> value, encrypted |-> encrypted, secret |-> secret]]
         IN /\ toolkitCall' = [call EXCEPT !.outcome = "written"]
            /\ res' = [res EXCEPT !.cookies =
                          [n \in DOMAIN res.cookies \cup {name} |->
                              IF n = name THEN cookie ELSE res.cookies[n]]]
    /\ UNCHANGED <<routing, apart, plugins, pc, requestId, request, hookState, hookErr, result, err, log>>

\* toolkit.setCookie(name, value, options), for a value and options of the given sets
setCookieOf(values, optionSets) ==
    /\ UserCodeRunning
    /\ \E name \in CookieNames, value \in values, options \in optionSets :
         LET merged == deepMerge(options, appOptions.cookies)
             encrypted == Truthy(Get(merged, "encrypted")[<<>>])
             secret == Get(merged, "secret")[<<>>]
             call == [NoCall EXCEPT !.method = "setCookie", !.name = name,
                                    !.value = value, !.options = options]
             cookie == [value |-> cookieValue(encrypted, value, secret),
                        options |-> Unsigned(cookieOptionsOf(merged)),
                        call |-> [value |-> value, encrypted |-> encrypted, secret |-> secret]]
         IN IF ~SecretFits(encrypted, secret)
            THEN /\ toolkitCall' = [call EXCEPT !.outcome = "raised"]
                 /\ res' = res
            ELSE /\ toolkitCall' = [call EXCEPT !.outcome = "written"]
                 /\ res' = [res EXCEPT !.cookies =
                               [n \in DOMAIN res.cookies \cup {name} |->
                                   IF n = name THEN cookie ELSE res.cookies[n]]]
    /\ UNCHANGED <<routing, apart, plugins, pc, requestId, request, hookState, hookErr, result, err, log>>

setCookie == setCookieOf(CookieValues, CallOptions)

\* toolkit.setCookie(name, value): a session cookie with the options of the application
setSessionCookie == setCookieOf({"v"}, {EmptyObj})

\* request._rawRes used directly: the response is sent behind the dispatcher's back
RawSend ==
    /\ UserCodeRunning
    /\ ~res.headersSent
    /\ res' = [res EXCEPT !.headersSent = TRUE]
    /\ UNCHANGED <<routing, apart, toolkitCall, plugins, pc, requestId, request, hookState, hookErr, result, err, log>>

-----------------------------------------------------------------------------
(* finalErrorGuard: whatever the handler throws is forwarded *)

\* finalErrorGuard that calls the handler again instead of forwarding the error
finalErrorGuardRetry(e, events) ==
    /\ pc' = "handlerRunning"
    /\ err' = err
    /\ log' = log \o events \o <<Ev("handlerInvoked", 0, "", 0)>>

\* finalErrorGuard that logs the error and does not forward it
finalErrorGuardSwallow(e, events) ==
    /\ pc' = "caught"
    /\ err' = err
    /\ log' = log \o events

\* catch (err) { console.error(err); next(err ?? {}); }
finalErrorGuard(e, events) == next(NullishCoalesce(e), events)

-----------------------------------------------------------------------------
(* :request, the route handler, the response *)

\* await plugins.reduce(...) returned:
\* server.events.emit(':request', request); route.handler(request, toolkit)
EmitRequest ==
    /\ pc = "pluginsRunning"
    /\ ReduceResult = "fulfilled"
    /\ pc' = "handlerRunning"
    /\ log' = log \o << [Ev("emit:request", 0, request.id, 0) EXCEPT
                            !.meta = request.plugins, !.ts = request.timestamp],
                        Ev("handlerInvoked", 0, "", 0) >>
    /\ UNCHANGED <<routing, apart, toolkitCall, plugins, requestId, request, hookState, hookErr, result, res, err>>

\* await plugins.reduce(...) threw
PluginsRejected ==
    /\ pc = "pluginsRunning"
    /\ ReduceResult = "rejected"
    /\ finalErrorGuard(hookErr, <<>>)
    /\ UNCHANGED <<routing, apart, toolkitCall, plugins, requestId, request, hookState, hookErr, result, res>>

\* what a handler may return
Results == {"null", "undefined", "json", "jsonBad"}

\* const originalResult = await route.handler(request, toolkit)
HandlerReturn ==
    /\ pc = "handlerRunning"
    /\ \E originalResult \in Results :
         /\ result' = originalResult
         /\ log' = Append(log, Ev("handlerReturned", 0, originalResult, 0))
    /\ pc' = "handlerReturned"
    /\ UNCHANGED <<routing, apart, toolkitCall, plugins, requestId, request, hookState, hookErr, res, err>>

\* route.handler throws or rejects
HandlerThrow ==
    /\ pc = "handlerRunning"
    /\ \E e \in Throwables : finalErrorGuard(e, <<Ev("handlerThrow", 0, e.kind, 0)>>)
    /\ UNCHANGED <<routing, apart, toolkitCall, plugins, requestId, request, hookState, hookErr, result, res>>

\* route.validation.response: absent, or a schema of the schema library
ResponseSchemas == {"none", "strict", "nullable", "broken"}

\* tryCatch(() => schema ? validate(schema)(originalResult) : originalResult)
validateResponse(schema, originalResult) ==
    CASE schema = "none" -> [_t |-> "right", value |-> originalResult, error |-> NoError]
      [] schema = "broken" ->
            [_t |-> "left", value |-> "",
             error |-> [kind |-> "Error", statusCode |-> 0, message |-> "boom", body |-> ""]]
      [] originalResult = "json" -> [_t |-> "right", value |-> "jsonParsed", error |-> NoError]
      [] schema = "nullable" /\ originalResult \in {"null", "undefined"} ->
            [_t |-> "right", value |-> originalResult, error |-> NoError]
      [] OTHER -> [_t |-> "left", value |-> "", error |-> ValidationError("response")]

\* result.value === null || result.value === undefined ? NoContent : OK
fallbackStatusCode(value) == IF value \in {"null", "undefined"} THEN NoContent ELSE OK

\* statusCode that lets an empty result override the status set with setStatus
statusCodeEmptyWins(locals, value) ==
    IF value \in {"null", "undefined"} \/ locals = 0 THEN fallbackStatusCode(value) ELSE locals

\* res.locals[CUSTOM_STATUS_CODE] ?? fallbackStatusCode
statusCode(locals, value) == IF locals # 0 THEN locals ELSE fallbackStatusCode(value)

\* res.status(statusCode).end()  or  res.status(statusCode).json(result.value)
responseBody(value) ==
    IF value \in {"null", "undefined"} THEN EmptyBody ELSE JsonBody({}, value)

\* RejectResponse that forwards the error of the validator as it is
RejectResponseRaw(error) ==
    /\ next(error, <<>>)
    /\ UNCHANGED <<result, res>>

\* if (result._t === 'left') return next(new HttpError(InternalServerError, ...))
RejectResponse(error) ==
    /\ IF error.kind = "ValidationError"
       THEN next(HttpError(InternalServerError, error.message, error.body), <<>>)
       ELSE next(HttpError(InternalServerError, HttpStatusName(InternalServerError),
                           ErrorObject(error)), <<>>)
    /\ UNCHANGED <<result, res>>

\* if (res.headersSent) return; ... write ...; server.events.emit(':afterResponse', ...)
SendResponse(value) ==
    /\ result' = value
    /\ pc' = "finalized"
    /\ err' = err
    /\ IF res.headersSent
       THEN /\ res' = res
            /\ log' = Append(log, Ev("responseValidated", 0, value, 0))
       ELSE LET code == statusCode(res.locals, value) IN
            /\ res' = [res EXCEPT !.headersSent = TRUE, !.status = code,
                                  !.body = responseBody(value)]
            /\ log' = log \o << Ev("responseValidated", 0, value, 0),
                                Ev("write", 0, responseBody(value).shape, code),
                                [Ev("emit:afterResponse", 0, value, code) EXCEPT
                                    !.meta = request.plugins, !.ts = Now + 2] >>

\* everything after `await route.handler(...)` returned
Respond ==
    /\ pc = "handlerReturned"
    /\ \E schema \in ResponseSchemas :
         LET r == validateResponse(schema, result) IN
         IF r._t = "left" THEN RejectResponse(r.error) ELSE SendResponse(r.value)
    /\ UNCHANGED <<routing, apart, toolkitCall, plugins, requestId, request, hookState, hookErr>>

-----------------------------------------------------------------------------
(* errorMiddleware *)

\* isStatusError(err): the error carries a status code
isStatusError(e) == e.statusCode # 0

\* { name: err.name, message: err.message, body }
NamedBody(e, body) ==
    [JsonBody({"name", "message", "body"}, e.message) EXCEPT
        !.name = errName(e), !.message = e.message, !.body = body]

\* { name: HttpStatusCode[err.statusCode], body: err }
StatusBody(e) ==
    [JsonBody({"name", "body"}, "") EXCEPT
        !.name = HttpStatusName(e.statusCode), !.body = ErrorObject(e)]

\* errorResponse that tries the status-error branch before the HttpError branch
errorResponseStatusFirst(e) ==
    IF e.kind = "ValidationError" THEN [status |-> 400, body |-> NamedBody(e, e.body)]
    ELSE IF isStatusError(e) THEN [status |-> e.statusCode, body |-> StatusBody(e)]
    ELSE IF e.kind = "HttpError" THEN [status |-> e.statusCode, body |-> NamedBody(e, e.body)]
    ELSE [status |-> 500, body |-> JsonBody({}, ErrorObject(e))]

\* the branches of errorMiddleware, in their order: ValidationError (body: err.details),
\* HttpError (body: err.body), status error, and res.status(500).json(err)
errorResponse(e) ==
    IF e.kind = "ValidationError" THEN [status |-> 400, body |-> NamedBody(e, e.body)]
    ELSE IF e.kind = "HttpError" THEN [status |-> e.statusCode, body |-> NamedBody(e, e.body)]
    ELSE IF isStatusError(e) THEN [status |-> e.statusCode, body |-> StatusBody(e)]
    ELSE [status |-> 500, body |-> JsonBody({}, ErrorObject(e))]

\* errorMiddleware that answers with the status set with setStatus, when one was set
errorMiddlewareCustomStatus ==
    /\ pc = "errorMiddleware"
    /\ IF res.headersSent
       THEN /\ pc' = "passedOn"
            /\ res' = res
            /\ log' = log \o << Ev("emit:error", 0, err.kind, err.statusCode),
                                Ev("nextAfterError", 0, err.kind, err.statusCode) >>
       ELSE LET w == errorResponse(err)
                code == IF res.locals # 0 THEN res.locals ELSE w.status IN
            /\ pc' = "failed"
            /\ res' = [res EXCEPT !.headersSent = TRUE, !.status = code, !.body = w.body]
            /\ log' = log \o << Ev("emit:error", 0, err.kind, err.statusCode),
                                Ev("errorWrite", 0, err.kind, code) >>
    /\ UNCHANGED <<routing, apart, toolkitCall, plugins, requestId, request, hookState, hookErr, result, err>>

\* errorMiddleware without the res.headersSent guard
errorMiddlewareNoGuard ==
    /\ pc = "errorMiddleware"
    /\ LET w == errorResponse(err) IN
       /\ pc' = "failed"
       /\ res' = [res EXCEPT !.headersSent = TRUE, !.status = w.status, !.body = w.body]
       /\ log' = log \o << Ev("emit:error", 0, err.kind, err.statusCode),
                           Ev("errorWrite", 0, err.kind, w.status) >>
    /\ UNCHANGED <<routing, apart, toolkitCall, plugins, requestId, request, hookState, hookErr, result, err>>

\* errorMiddleware that emits :error after it has written the response
errorMiddlewareEmitLast ==
    /\ pc = "errorMiddleware"
    /\ IF res.headersSent
       THEN /\ pc' = "passedOn"
            /\ res' = res
            /\ log' = log \o << Ev("nextAfterError", 0, err.kind, err.statusCode),
                                Ev("emit:error", 0, err.kind, err.statusCode) >>
       ELSE LET w == errorResponse(err) IN
            /\ pc' = "failed"
            /\ res' = [res EXCEPT !.headersSent = TRUE, !.status = w.status, !.body = w.body]
            /\ log' = log \o << Ev("errorWrite", 0, err.kind, w.status),
                                Ev("emit:error", 0, err.kind, err.statusCode) >>
    /\ UNCHANGED <<routing, apart, toolkitCall, plugins, requestId, request, hookState, hookErr, result, err>>

\* (err, _req, res, next) => { server.events.emit(':error', err); ... }
errorMiddleware ==
    /\ pc = "errorMiddleware"
    /\ IF res.headersSent
       THEN /\ pc' = "passedOn"
            /\ res' = res
            /\ log' = log \o << Ev("emit:error", 0, err.kind, err.statusCode),
                                Ev("nextAfterError", 0, err.kind, err.statusCode) >>
       ELSE LET w == errorResponse(err) IN
            /\ pc' = "failed"
            /\ res' = [res EXCEPT !.headersSent = TRUE, !.status = w.status, !.body = w.body]
            /\ log' = log \o << Ev("emit:error", 0, err.kind, err.statusCode),
                                Ev("errorWrite", 0, err.kind, w.status) >>
    /\ UNCHANGED <<routing, apart, toolkitCall, plugins, requestId, request, hookState, hookErr, result, err>>

-----------------------------------------------------------------------------

Next ==
    \/ Receive
    \/ ValidateParams
    \/ ValidateQuery
    \/ ValidatePayload
    \/ DecodeCookies
    \/ ConstructRequest
    \/ \E i \in 1..Len(plugins) : StartHook(i)
    \/ \E i \in 1..Len(plugins) : AccRejected(i)
    \/ \E i \in 1..Len(plugins) : HookReturn(i)
    \/ \E i \in 1..Len(plugins) : HookThrow(i)
    \/ setStatus
    \/ RawSend
    \/ EmitRequest
    \/ PluginsRejected
    \/ HandlerReturn
    \/ HandlerThrow
    \/ Respond
    \/ errorMiddleware

Spec == Init /\ [][Next]_vars

\* A request with any map of cookies, followed up to the handler, without plugins
InitCookies == Init /\ plugins = <<>>

NextCookies ==
    \/ Receive
    \/ ValidateParams
    \/ ValidateQuery
    \/ ValidatePayload
    \/ DecodeAnyCookies
    \/ ConstructRequest
    \/ EmitRequest
    \/ errorMiddleware

SpecCookies == InitCookies /\ [][NextCookies]_vars

-----------------------------------------------------------------------------
(* Listeners that throw: the event bus calls the listeners synchronously and catches
   nothing, so what a listener of `:afterResponse` throws leaves emit, then
   routeToExpressHandler, and is caught by finalErrorGuard *)

\* everything after `await route.handler(...)` returned, when the result is valid, the
\* response was not sent yet, and a listener of `:afterResponse` throws
RespondListenerThrows ==
    /\ pc = "handlerReturned"
    /\ ~res.headersSent
    /\ \E schema \in ResponseSchemas, e \in Throwables :
         LET r == validateResponse(schema, result)
             code == statusCode(res.locals, r.value) IN
         /\ r._t = "right"
         /\ result' = r.value
         /\ res' = [res EXCEPT !.headersSent = TRUE, !.status = code,
                               !.body = responseBody(r.value)]
         /\ finalErrorGuard(e, << Ev("responseValidated", 0, r.value, 0),
                                  Ev("write", 0, responseBody(r.value).shape, code),
                                  [Ev("emit:afterResponse", 0, r.value, code) EXCEPT
                                      !.meta = request.plugins, !.ts = Now + 2],
                                  Ev("listenerThrow", 0, e.kind, 0) >>)
    /\ UNCHANGED <<routing, apart, toolkitCall, plugins, requestId, request, hookState, hookErr>>

\* an application with at most two plugins
InitListeners == Init /\ Len(plugins) <= 2

NextListeners ==
    \/ Next
    \/ RespondListenerThrows

SpecListeners == InitListeners /\ [][NextListeners]_vars

-----------------------------------------------------------------------------
(* Scheduling: the event loop runs every continuation of the dispatcher that is ready;
   the hooks and the handler are user code, which is supposed to return or throw *)

\* the steps that are the dispatcher's own
DispatcherStep ==
    \/ Receive
    \/ ValidateParams
    \/ ValidateQuery
    \/ ValidatePayload
    \/ DecodeCookies
    \/ ConstructRequest
    \/ \E i \in 1..Len(plugins) : StartHook(i)
    \/ \E i \in 1..Len(plugins) : AccRejected(i)
    \/ EmitRequest
    \/ PluginsRejected
    \/ Respond
    \/ RespondListenerThrows
    \/ errorMiddleware

\* the hook that is running, or the handler, returns or throws
UserCodeEnds ==
    \/ \E i \in 1..Len(plugins) : HookReturn(i) \/ HookThrow(i)
    \/ HandlerReturn
    \/ HandlerThrow

SpecFair ==
    /\ InitListeners
    /\ [][NextListeners]_vars
    /\ WF_vars(DispatcherStep)
    /\ WF_vars(UserCodeEnds)

-----------------------------------------------------------------------------
(* Two requests in flight: the handler returned by routeToExpressHandler is called for a
   second request while the first is suspended at an await *)

\* the state of the request whose code is running
Current ==
    [pc |-> pc, requestId |-> requestId, request |-> request, hookState |-> hookState,
     hookErr |-> hookErr, result |-> result, res |-> res, toolkitCall |-> toolkitCall,
     err |-> err, log |-> log]

\* a request that has not entered the dispatcher
FreshRequest ==
    [pc |-> "idle", requestId |-> "none", request |-> NoRequest,
     hookState |-> [i \in 1..Len(plugins) |-> "notStarted"],
     hookErr |-> NoError, result |-> "none", res |-> NoResponse, toolkitCall |-> NoCall,
     err |-> NoError, log |-> <<>>]

\* the code of the request has reached an await (of the unsealing, of a hook, of the
\* handler), has returned, or has not been called yet
Suspended ==
    \/ pc \in {"idle", "payloadValidated", "handlerRunning"}
    \/ pc = "pluginsRunning" /\ \E i \in 1..Len(plugins) : hookState[i] = "running"
    \/ pc \in {"finalized", "failed", "passedOn"}

\* the event loop goes on with the other request
Switch ==
    /\ other # NoOther
    /\ Suspended
    /\ other' = Current
    /\ pc' = other.pc
    /\ requestId' = other.requestId
    /\ request' = other.request
    /\ hookState' = other.hookState
    /\ hookErr' = other.hookErr
    /\ result' = other.result
    /\ res' = other.res
    /\ toolkitCall' = other.toolkitCall
    /\ err' = other.err
    /\ log' = other.log
    /\ UNCHANGED <<routing, merge, appOptions, browser, plugins>>

\* an application with one plugin that has a request hook, and two requests
InitTwo ==
    /\ plugins \in { list \in PluginLists : Len(list) = 1 /\ list[1].name = "a" }
    /\ RequestInit
    /\ routes = <<>> /\ router = <<>> /\ dispatched = NoDispatch
    /\ validation = NoValidation
    /\ merge = NoMerge /\ other = FreshRequest
    /\ appOptions = DefaultAppOptions /\ browser = NoBrowser

NextTwo ==
    \/ Receive
    \/ ValidateParams
    \/ ValidateQuery
    \/ ValidatePayload
    \/ DecodeCookies
    \/ ConstructRequest
    \/ \E i \in 1..Len(plugins) : StartHook(i)
    \/ \E i \in 1..Len(plugins) : HookReturn(i)
    \/ setStatus
    \/ setSessionCookie
    \/ EmitRequest
    \/ HandlerReturn
    \/ Respond
    \/ errorMiddleware
    \/ Switch

SpecTwo == InitTwo /\ [][NextTwo]_vars

-----------------------------------------------------------------------------
(* deepMerge, called with any two objects *)

\* const merged = deepMerge(overrides, defaults)
Merge ==
    /\ ~merge.returned
    /\ merge' = [merge EXCEPT !.returned = TRUE,
                              !.value = deepMerge(merge.overrides, merge.defaults)]
    /\ UNCHANGED <<routing, other, appOptions, browser, requestVars>>

InitMerge ==
    /\ plugins = <<>>
    /\ RequestInit
    /\ routes = <<>> /\ router = <<>> /\ dispatched = NoDispatch
    /\ validation = NoValidation
    /\ merge \in { [NoMerge EXCEPT !.overrides = overrides, !.defaults = defaults] :
                      overrides \in OverrideObjects, defaults \in DefaultObjects }
    /\ other = NoOther /\ appOptions = DefaultAppOptions /\ browser = NoBrowser

SpecMerge == InitMerge /\ [][Merge]_vars

-----------------------------------------------------------------------------
(* A client and an application without plugins: the handler sets cookies, the      *)
(* client sends them back with its next request                                     *)

\* req.cookies: the cookies the client holds
DecodeBrowserCookies == DecodeCookiesOf({browser.jar})

\* the response has reached the client, which keeps its cookies and sends a request
NextRequest ==
    /\ pc \in {"finalized", "failed"}
    /\ browser.sent < MaxRequests
    /\ browser' =
         [jar |-> [n \in DOMAIN browser.jar \cup DOMAIN res.cookies |->
                     IF n \in DOMAIN res.cookies THEN res.cookies[n].value ELSE browser.jar[n]],
          set |-> [n \in DOMAIN browser.set \cup DOMAIN res.cookies |->
                     IF n \in DOMAIN res.cookies THEN res.cookies[n].call ELSE browser.set[n]],
          sent |-> browser.sent + 1]
    /\ pc' = "idle"
    /\ requestId' = "none"
    /\ request' = NoRequest
    /\ hookState' = [i \in 1..Len(plugins) |-> "notStarted"]
    /\ hookErr' = NoError
    /\ result' = "none"
    /\ res' = NoResponse
    /\ toolkitCall' = NoCall
    /\ err' = NoError
    /\ log' = <<>>
    /\ UNCHANGED <<routing, merge, other, appOptions, plugins>>

InitSetCookie ==
    /\ plugins = <<>>
    /\ RequestInit
    /\ routes = <<>> /\ router = <<>> /\ dispatched = NoDispatch
    /\ validation = NoValidation
    /\ merge = NoMerge /\ other = NoOther
    /\ appOptions \in AppOptionsUniverse /\ browser = NoBrowser

NextSetCookie ==
    \/ Receive
    \/ ValidateParams
    \/ ValidateQuery
    \/ ValidatePayload
    \/ DecodeBrowserCookies
    \/ ConstructRequest
    \/ EmitRequest
    \/ setCookie
    \/ HandlerReturn
    \/ HandlerThrow
    \/ Respond
    \/ errorMiddleware
    \/ NextRequest

SpecSetCookie == InitSetCookie /\ [][NextSetCookie]_vars

-----------------------------------------------------------------------------
(* Paths: strings as sequences of characters *)

\* the characters that occur in the model's paths, in the order of their code units
Alphabet == <<"(", ")", "/", "7", ":", "a", "c", "d", "e", "i", "r", "s", "t", "u", "v">>
Code(c) == CHOOSE k \in 1..Len(Alphabet) : Alphabet[k] = c
Codes(str) == [k \in 1..Len(str) |-> Code(str[k])]

\* s < t for two sequences of numbers, compared as JavaScript compares strings
LexLess(s, t) ==
    \E k \in 1..Len(t) :
        /\ \A l \in 1..(k - 1) : l <= Len(s) /\ s[l] = t[l]
        /\ (k > Len(s) \/ s[k] < t[k])

\* str.split('/')
RECURSIVE split(_)
split(str) ==
    IF \A k \in 1..Len(str) : str[k] # "/"
    THEN <<str>>
    ELSE LET k == CHOOSE k \in 1..Len(str) :
                      str[k] = "/" /\ \A l \in 1..(k - 1) : str[l] # "/"
         IN <<SubSeq(str, 1, k - 1)>> \o split(SubSeq(str, k + 1, Len(str)))

\* segment.match(/:/g) ?? []).length
colons(segment) == Cardinality({ k \in 1..Len(segment) : segment[k] = ":" })

\* segment.endsWith(')')
endsWithParen(segment) == Len(segment) > 0 /\ segment[Len(segment)] = ")"

-----------------------------------------------------------------------------
(* validateRoute *)

PathChars == {"/", ":", "a", "(", ")"}

\* route.path: any string of up to MaxPathLen characters
CandidatePaths == UNION { [1..n -> PathChars] : n \in 1..MaxPathLen }

TooManyParams == "RouteValidationError: Each path segment can contain at most one param."
NoRegexes ==
    "RouteValidationError: Don't use regular expressions in routes. Use validators instead."

\* validateRoute that checks the parameters only
validateRouteParamsOnly(path) ==
    LET segments == split(path) IN
    IF ~(\A k \in 1..Len(segments) : colons(segments[k]) <= 1) THEN TooManyParams
    ELSE "true"

\* validateRoute(route): the message of the invariant that failed, or true
validateRoute(path) ==
    LET segments == split(path) IN
    IF ~(\A k \in 1..Len(segments) : colons(segments[k]) <= 1) THEN TooManyParams
    ELSE IF ~(\A k \in 1..Len(segments) : ~endsWithParen(segments[k])) THEN NoRegexes
    ELSE "true"

ValidateRoute ==
    /\ validation.outcome = "pending"
    /\ validation' = [validation EXCEPT !.outcome = validateRoute(validation.path)]
    /\ UNCHANGED <<routes, router, dispatched, apart, requestVars>>

\* a route is about to be registered
InitValidateRoute ==
    /\ validation \in { [path |-> path, outcome |-> "pending"] : path \in CandidatePaths }
    /\ routes = <<>> /\ router = <<>> /\ dispatched = NoDispatch
    /\ merge = NoMerge /\ other = NoOther
    /\ appOptions = DefaultAppOptions /\ browser = NoBrowser
    /\ plugins = <<>>
    /\ RequestInit

SpecValidateRoute == InitValidateRoute /\ [][ValidateRoute]_vars

-----------------------------------------------------------------------------
(* initRouter: the routes are sorted and added to the express router *)

Methods == {"get", "post"}

UsersId == <<"/", "u", "s", "e", "r", "s", "/", ":", "i", "d">>
UsersActive == <<"/", "u", "s", "e", "r", "s", "/", "a", "c", "t", "i", "v", "e">>
Users == <<"/", "u", "s", "e", "r", "s">>
Cars == <<"/", "c", "a", "r", "s">>
Id == <<"/", ":", "i", "d">>
Users7 == <<"/", "u", "s", "e", "r", "s", "/", "7">>

RoutePaths == {UsersId, UsersActive, Users, Cars, Id}
Route(method, path) == [method |-> method, path |-> path]
RouteUniverse == { Route(method, path) : method \in Methods, path \in RoutePaths }

\* the routes of an application: no (method, path) is registered twice
RouteLists ==
    { list \in UNION { [1..n -> RouteUniverse] : n \in 1..MaxRoutes } :
        \A i, j \in 1..Len(list) : i # j => list[i] # list[j] }

\* a segment with the parameter marker
isParam(segment) == \E k \in 1..Len(segment) : segment[k] = ":"

\* calculateSpecificity(path): one score per segment, a literal segment ranking before
\* a parameter; two results are compared like strings, score by score
calculateSpecificity(path) ==
    LET segments == split(path) IN
    [k \in 1..Len(segments) |-> IF isParam(segments[k]) THEN 2 ELSE 1]

aFirst == -1
bFirst == 1

\* the comparator of initRouter comparing the paths only
compareRoutesByPath(a, b) ==
    IF LexLess(Codes(b.path), Codes(a.path)) THEN bFirst ELSE aFirst

\* (a, b) => { ... } passed to sort
compareRoutes(a, b) ==
    LET aSpecificity == calculateSpecificity(a.path)
        bSpecificity == calculateSpecificity(b.path) IN
    IF aSpecificity # bSpecificity
    THEN IF LexLess(bSpecificity, aSpecificity) THEN bFirst ELSE aFirst
    ELSE IF LexLess(Codes(b.path), Codes(a.path)) THEN bFirst ELSE aFirst

Reorderings(list) ==
    { [k \in 1..Len(list) |-> list[f[k]]] :
        f \in { g \in [1..Len(list) -> 1..Len(list)] :
                  \A i, j \in 1..Len(list) : i # j => g[i] # g[j] } }

\* routes.slice().sort(compare): an order of the elements in which the comparator puts
\* every element before those that follow it.  For two routes with the same path the
\* comparator answers aFirst whichever is a: it is not a consistent comparison function
\* and the order of the two is the sort implementation's choice
sort(list) ==
    { sorted \in Reorderings(list) :
        \A i, j \in 1..Len(list) : i < j => compareRoutes(sorted[i], sorted[j]) <= 0 }

\* .forEach((route) => router[route.method](route.path, ...))
initRouter ==
    /\ router = <<>>
    /\ router' \in sort(routes)
    /\ UNCHANGED <<routes, dispatched, validation, apart, requestVars>>

RequestPaths == {UsersActive, Users7, Users, Cars}

\* express: the pattern of a layer matches the path of a request
pathMatches(pattern, path) ==
    LET ps == split(pattern)
        qs == split(path) IN
    /\ Len(ps) = Len(qs)
    /\ \A k \in 1..Len(ps) : IF isParam(ps[k]) THEN qs[k] # <<>> ELSE ps[k] = qs[k]

\* express walks the layers in the order they were added and calls the first that matches
firstMatch(layers, method, path) ==
    LET matching == { k \in 1..Len(layers) :
                        layers[k].method = method /\ pathMatches(layers[k].path, path) } IN
    IF matching = {} THEN NoRoute
    ELSE layers[CHOOSE k \in matching : \A l \in matching : k <= l]

Dispatch ==
    /\ router # <<>>
    /\ \E method \in Methods, path \in RequestPaths :
         dispatched' = [request |-> Route(method, path),
                        route |-> firstMatch(router, method, path)]
    /\ UNCHANGED <<routes, router, validation, apart, requestVars>>

InitRoutes ==
    /\ routes \in RouteLists
    /\ router = <<>> /\ dispatched = NoDispatch
    /\ validation = NoValidation
    /\ merge = NoMerge /\ other = NoOther
    /\ appOptions = DefaultAppOptions /\ browser = NoBrowser
    /\ plugins = <<>>
    /\ RequestInit

NextRoutes == initRouter \/ Dispatch

SpecRoutes == InitRoutes /\ [][NextRoutes]_vars

-----------------------------------------------------------------------------
(* Reading the log *)

Positions(type) == { k \in 1..Len(log) : log[k].type = type }
PositionsOf(type, i) == { k \in 1..Len(log) : log[k].type = type /\ log[k].idx = i }
Before(type1, type2) == \A k \in Positions(type1), l \in Positions(type2) : k < l
IsPrefix(s, t) == Len(s) <= Len(t) /\ \A k \in 1..Len(s) : s[k] = t[k]

Hooked == { i \in 1..Len(plugins) : HasRequestHook(plugins[i]) }

\* next(err) was called before the payload was validated: an input validation failed
InputRejected == Happened("next") /\ ~Happened("payloadValidated")

\* all three validations passed and the chain of request hooks fulfilled
InputsAndHooksSucceeded ==
    /\ Happened("payloadValidated")
    /\ request.constructed
    /\ pc # "pluginsRunning"
    /\ \A i \in 1..Len(plugins) : hookState[i] \in {"skipped", "fulfilled"}

Terminal == pc \in {"finalized", "failed", "passedOn"}

-----------------------------------------------------------------------------
(* C1 *)

StageTypes ==
    {"requestId", "paramsValidated", "queryValidated", "payloadValidated", "cookiesDecoded",
     "emit:request", "handlerInvoked", "responseValidated", "responseHooksRun"}

\* Received, ParamsValidated, QueryValidated, PayloadValidated, CookiesDecoded,
\* PluginsRan(request), HandlerInvoked, ResponseValidated, PluginsRan(response)
StageOrder ==
    <<"requestId", "paramsValidated", "queryValidated", "payloadValidated", "cookiesDecoded",
      "emit:request", "handlerInvoked", "responseValidated", "responseHooksRun">>

StageEvents == SelectSeq(log, LAMBDA e : e.type \in StageTypes)
Stages == [k \in 1..Len(StageEvents) |-> StageEvents[k].type]

\* C1: the stages of a request occur only in the order of the state machine, each after
\* the preceding one, and a request that is Finalized has gone through every stage,
\* the plugin response hooks included
C1_StagesInOrderNoneSkipped ==
    /\ IsPrefix(Stages, StageOrder)
    /\ pc = "finalized" => Stages = StageOrder

-----------------------------------------------------------------------------
(* C2 *)

\* C2: once an input validation has failed, no further validation is performed, cookies
\* are not decoded, no request hook runs, :request is not emitted, the handler is not
\* invoked, and the request ends with status 400
C2_FirstInvalidInputShortCircuits ==
    InputRejected =>
        /\ Count("next") = 1
        /\ \A k \in 1..Len(log) :
              k > Pos("next") => log[k].type \in {"emit:error", "errorWrite"}
        /\ ~Happened("cookiesDecoded") /\ ~request.constructed
        /\ ~Happened("hookStart")
        /\ ~Happened("emit:request")
        /\ ~Happened("handlerInvoked")
        /\ ~Happened("write")
        /\ pc \in {"errorMiddleware", "failed"}
        /\ err.statusCode = 400
        /\ pc = "failed" => res.status = 400 /\ res.headersSent /\ res.body.shape = "json"

C2_Witness ==
    /\ InputRejected
    /\ Happened("paramsValidated")
    /\ ~Happened("queryValidated")
    /\ pc = "failed"
    /\ res.status = 400

-----------------------------------------------------------------------------
(* C3 *)

\* C3: the handler is invoked at most once, exactly once when the inputs are valid and
\* all request hooks succeeded, with a request constructed after the three validations;
\* nothing is done twice and nothing is invoked after an error was forwarded
C3_HandlerInvokedOnce ==
    /\ Count("handlerInvoked") <= 1
    /\ InputsAndHooksSucceeded => Count("handlerInvoked") = 1
    /\ Happened("handlerInvoked") =>
          /\ InputsAndHooksSucceeded
          /\ Before("requestConstructed", "handlerInvoked")
    /\ request.constructed =>
          /\ Count("requestConstructed") = 1
          /\ Before("paramsValidated", "requestConstructed")
          /\ Before("queryValidated", "requestConstructed")
          /\ Before("payloadValidated", "requestConstructed")
          /\ Count("paramsValidated") = 1 /\ Count("queryValidated") = 1
          /\ Count("payloadValidated") = 1
    /\ \A i \in 1..Len(plugins) : Cardinality(PositionsOf("hookStart", i)) <= 1
    /\ Count("next") <= 1
    /\ \A k \in Positions("next"), l \in 1..Len(log) :
          l > k => log[l].type \in {"emit:error", "errorWrite", "nextAfterError"}

C3_Witness ==
    /\ pc = "finalized"
    /\ Count("handlerInvoked") = 1
    /\ \E i \in Hooked : hookState[i] = "fulfilled"

-----------------------------------------------------------------------------
(* C4 *)

\* C4: request hooks run one at a time in registration order: when the hook of a plugin
\* starts, the hook of every earlier plugin that has one has returned; plugins without
\* a request hook are skipped, never started, and do not change the order
C4_HooksStrictlySequential ==
    /\ Cardinality({ i \in 1..Len(plugins) : hookState[i] = "running" }) <= 1
    /\ \A j \in Hooked : \A k \in PositionsOf("hookStart", j) :
          \A i \in Hooked : i < j =>
              \E l \in PositionsOf("hookEnd", i) : l < k
    /\ \A i \in (1..Len(plugins)) \ Hooked :
          /\ hookState[i] \in {"notStarted", "skipped"}
          /\ PositionsOf("hookStart", i) = {}
    /\ (pc = "handlerRunning" /\ Hooked # {}) =>
          \A i \in Hooked : PositionsOf("hookEnd", i) # {}

C4_Witness ==
    /\ Len(plugins) = 3
    /\ Hooked = {1, 3}
    /\ plugins[1].name # plugins[3].name
    /\ hookState[3] = "running"
    /\ PositionsOf("hookEnd", 1) # {}

-----------------------------------------------------------------------------
(* C5 *)

\* C5: request.plugins[name] is written at most once per plugin name, and only by a
\* request hook that returned a non-empty value
C5_PluginMetadataWrittenOnce ==
    /\ \A n \in PluginNames :
          Cardinality({ k \in Positions("pluginsWrite") : log[k].data = n }) <= 1
    /\ \A k \in Positions("pluginsWrite") :
          /\ HasRequestHook(plugins[log[k].idx])
          /\ k > 1 /\ log[k - 1].type = "hookEnd" /\ log[k - 1].idx = log[k].idx
          /\ log[k - 1].data \notin {"undefined", "null", "emptyString"}
    /\ \A k \in Positions("hookEnd") :
          log[k].data \in {"undefined", "null", "emptyString"} =>
              PositionsOf("pluginsWrite", log[k].idx) = {}

-----------------------------------------------------------------------------
(* C6 *)

\* C6: when the handler's result passed response validation, the response hook of every
\* plugin that defines one has been invoked, in registration order
C6_ResponseHooksInvoked ==
    (pc = "finalized" /\ Happened("responseValidated")) =>
        /\ \A i \in 1..Len(plugins) :
              plugins[i].response => Cardinality(PositionsOf("responseHook", i)) = 1
        /\ \A k, l \in Positions("responseHook") : k < l => log[k].idx < log[l].idx

-----------------------------------------------------------------------------
(* C7 *)

\* C7: the written status is the one set with setStatus if any, otherwise 204 for a
\* null or undefined result and 200 otherwise; the body is empty exactly for a null or
\* undefined result and is the validated result as JSON otherwise
C7_StatusAndBodyOfSuccess ==
    Happened("write") =>
        LET validated == log[Pos("responseValidated")].data
            nullish == validated \in {"null", "undefined"} IN
        /\ res.locals # 0 => res.status = res.locals
        /\ (res.locals = 0 /\ nullish) => res.status = 204
        /\ (res.locals = 0 /\ ~nullish) => res.status = 200
        /\ (res.body.shape = "empty") <=> nullish
        /\ ~nullish => res.body = JsonBody({}, validated)
        /\ log[Pos("write")].code = res.status
        /\ Count("write") = 1

C7_Witness ==
    /\ pc = "finalized"
    /\ Happened("write")
    /\ res.locals = 404
    /\ res.status = 404
    /\ result = "null"
    /\ res.body.shape = "empty"

-----------------------------------------------------------------------------
(* C8 *)

\* C8: a request that finishes successfully emits :response with the final body, then
\* writes the response, then emits :afterResponse with the status written and a
\* timestamp taken after the write
C8_ResponseWriteAfterResponse ==
    (pc = "finalized" /\ Happened("write")) =>
        /\ Count("emit:response") = 1
        /\ Count("emit:afterResponse") = 1
        /\ Before("emit:response", "write")
        /\ Before("write", "emit:afterResponse")
        /\ \A k \in Positions("emit:afterResponse") :
              /\ log[k].code = res.status
              /\ log[k].data = result
              /\ log[k].ts >= Pos("write")

-----------------------------------------------------------------------------
(* C9 *)

\* C9: :request is emitted exactly once when the inputs are valid and all request hooks
\* succeeded, after the last hook and every metadata write, before the handler is
\* invoked, carrying the request with its plugin metadata; never for a failed request
C9_RequestEventOnce ==
    /\ Count("emit:request") <= 1
    /\ InputsAndHooksSucceeded => Count("emit:request") = 1
    /\ Happened("emit:request") =>
          /\ InputsAndHooksSucceeded
          /\ ~InputRejected
          /\ Before("hookEnd", "emit:request")
          /\ Before("hookStart", "emit:request")
          /\ Before("pluginsWrite", "emit:request")
          /\ Before("emit:request", "handlerInvoked")
          /\ Before("emit:request", "next")
          /\ \A i \in Hooked : PositionsOf("hookEnd", i) # {}
          /\ log[Pos("emit:request")].meta = request.plugins
          /\ log[Pos("emit:request")].data = requestId
    /\ (Happened("hookThrow") \/ InputRejected) => ~Happened("emit:request")

C9_Witness ==
    /\ Happened("emit:request")
    /\ log[Pos("emit:request")].meta["a"] = "meta"
    /\ log[Pos("emit:request")].meta["b"] = "unset"
    /\ Cardinality(Hooked) = 2

-----------------------------------------------------------------------------
(* C10 *)

Throws == Positions("hookThrow") \cup Positions("handlerThrow")

\* C10: every failed request reaches errorMiddleware, which emits :error with the
\* forwarded error exactly once, before any error response is written
C10_ErrorEventOnceBeforeWrite ==
    /\ Count("emit:error") <= 1
    /\ Count("errorWrite") <= 1
    /\ Before("next", "emit:error")
    /\ Before("emit:error", "errorWrite")
    /\ Happened("errorWrite") => Happened("emit:error")
    /\ Happened("emit:error") =>
          /\ log[Pos("emit:error")].data = err.kind
          /\ log[Pos("emit:error")].code = err.statusCode
          /\ err.kind \in {"ValidationError", "HttpError", "StatusError", "Error", "Object"}
    /\ (Throws # {} \/ InputRejected) =>
          /\ pc \in {"pluginsRunning", "errorMiddleware", "failed", "passedOn"}
          /\ pc # "pluginsRunning" => Happened("next")
    /\ \A k \in Throws :
          Happened("next") =>
              log[Pos("next")].data =
                  (IF log[k].data = "undefined" THEN "Object" ELSE log[k].data)
    /\ (Happened("handlerReturned") /\ pc # "handlerReturned"
            /\ ~Happened("responseValidated")) =>
          /\ Happened("next")
          /\ err.kind = "HttpError" /\ err.statusCode = 500
    /\ Happened("next") => pc \in {"errorMiddleware", "failed", "passedOn"}
    /\ Terminal => (pc = "finalized" <=> ~Happened("next"))
    /\ pc \in {"failed", "passedOn"} => Count("emit:error") = 1
    /\ pc = "failed" => Count("errorWrite") = 1

C10_Witness ==
    /\ pc = "failed"
    /\ err.kind = "StatusError"
    /\ Happened("hookThrow")
    /\ Count("emit:error") = 1
    /\ Pos("emit:error") < Pos("errorWrite")

-----------------------------------------------------------------------------
(* C11 *)

\* the handler returned and its result did not pass the response validation
ResponseRejected ==
    Happened("handlerReturned") /\ pc # "handlerReturned" /\ ~Happened("responseValidated")

\* C11 as stated: a request whose result fails the response schema ends with status
\* 500, with no success response and no :afterResponse
C11_ResponseFailureEndsWith500 ==
    (ResponseRejected /\ Terminal) =>
        /\ res.status = 500
        /\ ~Happened("write")
        /\ ~Happened("emit:afterResponse")

\* C11: a result that fails the response schema is forwarded as an HttpError with status
\* 500 whichever error the validator raised; the error response, written unless the
\* response was already sent, has status 500 and never 400; no success response is
\* written and :afterResponse is not emitted
C11_ResponseFailureIs500UnlessSent ==
    ResponseRejected =>
        /\ pc \in {"errorMiddleware", "failed", "passedOn"}
        /\ err.kind = "HttpError" /\ err.statusCode = 500
        /\ log[Pos("next")].code = 500
        /\ ~Happened("write")
        /\ ~Happened("emit:afterResponse")
        /\ res.status # 400
        /\ pc = "failed" =>
              /\ res.status = 500
              /\ log[Pos("errorWrite")].code = 500
        /\ pc = "passedOn" => res.status = 0 /\ res.body = NoBody

C11_Witness ==
    /\ ResponseRejected
    /\ pc = "failed"
    /\ res.status = 500
    /\ result = "jsonBad"
    /\ res.body.message = "invalid"

-----------------------------------------------------------------------------
(* C12 *)

\* C12: a request rejected by the validation of params, query or payload is answered
\* with status 400 and the body { name, message, body } where name is the name of the
\* validation error and body its details
C12_InputFailureBody ==
    (InputRejected /\ pc = "failed") =>
        /\ res.status = 400
        /\ res.body.shape = "json"
        /\ res.body.fields = {"name", "message", "body"}
        /\ res.body.name = errName(ValidationError("params"))
        /\ res.body.body \in {"params", "query", "payload"}

-----------------------------------------------------------------------------
(* C13 *)

\* the error response that C13 describes, read from the forwarded error
C13_Mapping ==
    /\ Count("errorWrite") = 1
    /\ log[Pos("errorWrite")].code = res.status
    /\ err.kind = "ValidationError" => res.status = 400
    /\ err.kind = "HttpError" =>
          /\ res.status = err.statusCode
          /\ res.body.fields = {"name", "message", "body"}
          /\ res.body.message = err.message
          /\ res.body.body = err.body
    /\ err.kind = "StatusError" =>
          /\ res.status = err.statusCode
          /\ res.body.fields = {"name", "body"}
    /\ err.kind \in {"Error", "Object"} =>
          /\ res.status = 500
          /\ res.body = JsonBody({}, err.kind)

\* C13 as stated: whenever a hook or the handler has thrown, exactly one branch of
\* errorMiddleware writes the response
C13_ErrorAlwaysWritten == (Throws # {} /\ Terminal) => C13_Mapping

\* C13: for an error thrown by a hook or the handler, errorMiddleware, unless the
\* response was already sent, writes once: a ValidationError as 400, else an HttpError
\* with its own status and { name, message, body }, else a status error with its status,
\* else 500 with the error itself as body
C13_ErrorWrittenUnlessSent ==
    /\ (Throws # {} /\ pc = "failed") => C13_Mapping
    /\ (Throws # {} /\ pc = "passedOn") => ~Happened("errorWrite") /\ res.status = 0

C13_Witness ==
    /\ Happened("handlerThrow")
    /\ pc = "failed"
    /\ err.kind = "HttpError"
    /\ res.status = 404
    /\ res.body.body = "nf"

-----------------------------------------------------------------------------
(* C14 *)

\* C14: every error response written by errorMiddleware is a JSON document with at
\* least the members name and message
C14_ErrorBodyHasNameAndMessage ==
    Happened("errorWrite") =>
        /\ res.body.shape = "json"
        /\ {"name", "message"} \subseteq res.body.fields

-----------------------------------------------------------------------------
(* C15 *)

\* C15: when the response was already sent at the time the result has been validated,
\* the dispatcher writes nothing and still emits :afterResponse
C15_SentResponseStillBookkept ==
    (pc = "finalized" /\ ~Happened("write")) =>
        /\ res.headersSent
        /\ res.status = 0 /\ res.body = NoBody
        /\ Count("emit:afterResponse") = 1

-----------------------------------------------------------------------------
(* C16 *)

\* C16: errorMiddleware, entered when the headers are already sent, leaves the response
\* as it is, emits :error, and calls next once, with the error it received
C16_HeadersSentErrorPassedOn ==
    [][ (pc = "errorMiddleware" /\ res.headersSent) =>
           /\ res' = res
           /\ err' = err
           /\ pc' = "passedOn"
           /\ Len(log') = Len(log) + 2
           /\ log'[Len(log) + 1] = Ev("emit:error", 0, err.kind, err.statusCode)
           /\ log'[Len(log) + 2] = Ev("nextAfterError", 0, err.kind, err.statusCode)
           /\ \A k \in 1..Len(log) :
                 log'[k] = log[k] /\ log[k].type \notin {"errorWrite", "nextAfterError"}
      ]_vars

C16_Witness ==
    /\ pc = "passedOn"
    /\ res.headersSent
    /\ res.status = 0
    /\ Count("nextAfterError") = 1
    /\ Count("emit:error") = 1
    /\ ~Happened("errorWrite")

-----------------------------------------------------------------------------
(* C17 *)

\* req.cookies as read by the dispatcher
InboundJar == log[Pos("cookiesDecoded")].cookies

\* C17: decoding the cookies never forwards an error; request.cookies has the names of
\* the inbound cookies; a sealed value that unseals under the application's secret is
\* replaced by the unsealed value, every other value (not sealed, sealed with another
\* secret, corrupted) is kept as it came, whatever the other cookies are
C17_CookieDecodingNeverFails ==
    /\ (Happened("payloadValidated") /\ pc # "payloadValidated") =>
          Happened("cookiesDecoded")
    /\ Happened("next") => ~Happened("payloadValidated")
    /\ Happened("cookiesDecoded") =>
          /\ DOMAIN request.cookies = DOMAIN InboundJar
          /\ \A n \in DOMAIN InboundJar :
                LET in == InboundJar[n]
                    out == request.cookies[n] IN
                IF in.sealed /\ in.secret = AppSecret
                THEN out = [sealed |-> FALSE, value |-> in.value, secret |-> ""]
                ELSE out = in

C17_Witness ==
    /\ pc = "handlerRunning"
    /\ DOMAIN request.cookies = WideCookieNames
    /\ InboundJar["sid"] = seal("t", "secretB")
    /\ InboundJar["theme"] = seal("s", AppSecret)
    /\ InboundJar["lang"] = seal("u", "corrupted")
    /\ request.cookies["sid"] = seal("t", "secretB")
    /\ request.cookies["theme"] = Plain("s")
    /\ request.cookies["lang"] = seal("u", "corrupted")

-----------------------------------------------------------------------------
(* C18 *)

\* the paths differ in one segment only, literal in p and a parameter in q
LiteralForParam(p, q) ==
    LET ps == split(p)
        qs == split(q) IN
    /\ Len(ps) = Len(qs)
    /\ \E k \in 1..Len(ps) :
          /\ ~isParam(ps[k]) /\ isParam(qs[k])
          /\ \A l \in 1..Len(ps) : l # k => ps[l] = qs[l]

PositionIn(layers, route) == CHOOSE k \in 1..Len(layers) : layers[k] = route

\* C18: in the router built by initRouter a route whose path has a literal segment comes
\* before every route whose path has a parameter in that place and is otherwise equal,
\* in whatever order they were registered; with GET /users/:id and GET /users/active
\* registered, GET /users/active is dispatched to the literal route
C18_LiteralBeforeParameter ==
    router # <<>> =>
        /\ \A i, j \in 1..Len(router) :
              LiteralForParam(router[i].path, router[j].path) => i < j
        /\ ({Route("get", UsersId), Route("get", UsersActive)}
                \subseteq { routes[k] : k \in 1..Len(routes) }) =>
              /\ PositionIn(router, Route("get", UsersActive))
                    < PositionIn(router, Route("get", UsersId))
              /\ dispatched.request = Route("get", UsersActive) =>
                    dispatched.route = Route("get", UsersActive)

C18_Witness ==
    /\ routes = <<Route("get", UsersId), Route("get", UsersActive)>>
    /\ router = <<Route("get", UsersActive), Route("get", UsersId)>>
    /\ dispatched.request = Route("get", UsersActive)
    /\ dispatched.route = Route("get", UsersActive)

-----------------------------------------------------------------------------
(* C19 *)

\* C19: for routes with pairwise distinct (method, path) the order built by initRouter
\* is the only one the sort can produce, from any registration order of the same
\* routes; of two routes the comparator puts exactly one first; and sorting the sorted
\* list again returns it
C19_OrderTotalAndDeterministic ==
    router # <<>> =>
        /\ \A registration \in Reorderings(routes) : sort(registration) = {router}
        /\ \A i, j \in 1..Len(router) :
              i # j => compareRoutes(router[i], router[j]) = - compareRoutes(router[j], router[i])
        /\ sort(router) = {router}

-----------------------------------------------------------------------------
(* C20 *)

\* some segment of the path holds two parameter markers
SomeSegmentWithTwoParams(path) ==
    \E i, j \in 1..Len(path) :
        /\ i < j
        /\ path[i] = ":" /\ path[j] = ":"
        /\ \A k \in i..j : path[k] # "/"

\* some segment of the path ends with a parenthesised pattern
SomeSegmentWithRegex(path) ==
    \E i \in 1..Len(path) : path[i] = ")" /\ (i = Len(path) \/ path[i + 1] = "/")

-----------------------------------------------------------------------------
(* setCookie *)

\* the option of a call of setCookie that is in effect: the one of the call when the
\* call defines it, the one of the application otherwise
Effective(call, key) ==
    IF Get(call.options, key) # Undefined
    THEN Get(call.options, key)[<<>>]
    ELSE Get(appOptions.cookies, key)[<<>>]

\* C21: setCookie seals the value exactly when `encrypted` is true in the effective
\* options.  With `encrypted` true and a secret that is not 32 characters long the call
\* raises and writes no cookie; with `encrypted` true and a secret of 32 characters the
\* sealed value is written; with `encrypted` false the raw value is written, whatever
\* the secret; `encrypted` and `secret` are never among the attributes of the cookie.
C21_SealedExactlyWhenEncrypted ==
    [][ (toolkitCall' # toolkitCall /\ toolkitCall'.method = "setCookie") =>
            LET call == toolkitCall'
                encrypted == Effective(call, "encrypted") = "true"
                secret == Effective(call, "secret")
                fits == length(secret) = RequiredSecretLength
            IN /\ (encrypted /\ ~fits) =>
                      call.outcome = "raised" /\ res'.cookies = res.cookies
               /\ (encrypted /\ fits) =>
                      /\ call.outcome = "written"
                      /\ res'.cookies[call.name].value = seal(call.value, secret)
               /\ ~encrypted =>
                      /\ call.outcome = "written"
                      /\ res'.cookies[call.name].value = Plain(call.value)
               /\ call.outcome = "written" =>
                      /\ keysOf(res'.cookies[call.name].options) \cap {"encrypted", "secret"} = {}
                      /\ \A n \in DOMAIN res.cookies \ {call.name} :
                            res'.cookies[n] = res.cookies[n]
      ]_vars

\* a call that raised for a short secret, after a call that wrote a sealed cookie
C21_Witness ==
    /\ toolkitCall.method = "setCookie"
    /\ toolkitCall.outcome = "raised"
    /\ Get(toolkitCall.options, "secret") = Primitive("short")
    /\ "sid" \in DOMAIN res.cookies
    /\ isSealed(res.cookies["sid"].value)
    /\ keysOf(res.cookies["sid"].options) = {"httpOnly", "signed"}

-----------------------------------------------------------------------------
(* deepMerge *)

\* overrides define the key: they have it, and its value is not undefined
Defines(overrides, key) == Get(overrides, key) # Undefined

\* field by field, at every depth: the override when overrides define the key, the default
\* otherwise; where both are objects, the fields are settled one level down
RECURSIVE FieldByField(_, _)
FieldByField(overrides, defaults) ==
    Object([key \in keysOf(overrides) \cup keysOf(defaults) |->
               IF key \notin keysOf(defaults) THEN Sub(overrides, key)
               ELSE IF ~Defines(overrides, key) THEN Sub(defaults, key)
               ELSE IF isObject(Sub(overrides, key)) /\ isObject(Sub(defaults, key))
                    THEN FieldByField(Sub(overrides, key), Sub(defaults, key))
               ELSE Sub(overrides, key)])

\* C22: deepMerge(overrides, defaults) overrides field by field, recursing into nested
\* objects: for every key at every depth the result holds the override when overrides
\* define the key and the default otherwise, keys only in overrides are kept, and an
\* explicit override of a key whose default is a nested object, by null or by a value
\* that is not an object, is not replaced by the default.
C22_OverridesFieldByField ==
    merge.returned => merge.value = FieldByField(merge.overrides, merge.defaults)

-----------------------------------------------------------------------------
(* The round trip of a sealed cookie *)

\* C23: a cookie written by setCookie(name, v) with the effective options
\* { encrypted: true, secret: s } and presented with a later request to an application
\* whose secret is s arrives as request.cookies[name] = v; when the secret of the
\* application differs from s, request.cookies[name] is never v: it is the raw sealed
\* string.
C23_RoundTrip ==
    Happened("cookiesDecoded") =>
        \A n \in DOMAIN browser.set :
            browser.set[n].encrypted =>
                IF browser.set[n].secret = Get(appOptions.cookies, "secret")[<<>>]
                THEN request.cookies[n] = Plain(browser.set[n].value)
                ELSE /\ request.cookies[n] # Plain(browser.set[n].value)
                     /\ request.cookies[n] = browser.jar[n]
                     /\ isSealed(request.cookies[n])

\* the handler of the first request sealed "w" with the secret of the application, the
\* second request carries the cookie and its handler reads "w"
C23_Witness ==
    /\ pc = "handlerRunning"
    /\ "sid" \in DOMAIN browser.set
    /\ browser.set["sid"] = [value |-> "w", encrypted |-> TRUE, secret |-> AppSecret]
    /\ isSealed(browser.jar["sid"])
    /\ request.cookies["sid"] = Plain("w")

-----------------------------------------------------------------------------
(* The id and the timestamp of the request *)

\* C24: the id and the timestamp of the request are both captured before the validation
\* of params starts, hence before any validation, cookie unsealing or other suspension
\* point of the request.  (The clock counts the observable calls: the validation of
\* params starts at the time just before its outcome is logged.)
C24_IdAndTimestampBeforeValidation ==
    request.constructed =>
        /\ request.id = requestId
        /\ Pos("requestId") < Pos("paramsValidated")
        /\ request.timestamp <= Pos("paramsValidated") - 1

-----------------------------------------------------------------------------
(* A request hook that throws *)

\* request.plugins as the writes of the hooks left it: the metadata under every name that
\* a hook has written, nothing under the others
PluginsAsWritten ==
    [n \in PluginNames |->
        IF \E k \in 1..Len(log) : log[k].type = "pluginsWrite" /\ log[k].data = n
        THEN "meta" ELSE "unset"]

\* C26: when a request hook throws or rejects, no later request hook is started,
\* `:request` is not emitted, the handler is not invoked, no success response is written,
\* and the error is forwarded with next(err) exactly once; the metadata written by the
\* earlier plugins stays as written.
C26_HookFailureStopsTheRequest ==
    Happened("hookThrow") =>
        /\ Count("hookThrow") = 1
        /\ \A k \in 1..Len(log) :
              k > Pos("hookThrow") => log[k].type \notin {"hookStart", "hookEnd", "pluginsWrite"}
        /\ ~Happened("emit:request")
        /\ ~Happened("handlerInvoked")
        /\ ~Happened("write")
        /\ request.plugins = PluginsAsWritten
        /\ Count("next") <= 1
        /\ pc # "pluginsRunning" =>
              /\ Count("next") = 1
              /\ err = NullishCoalesce(hookErr)
              /\ Pos("hookThrow") < Pos("next")

\* the first hook wrote its metadata, the second threw, the third was never started, and
\* the error has been answered
C26_Witness ==
    /\ Len(plugins) = 3
    /\ pc = "failed"
    /\ Happened("hookThrow")
    /\ log[Pos("hookThrow")].idx = 2
    /\ HasRequestHook(plugins[3])
    /\ request.plugins[plugins[1].name] = "meta"
    /\ Happened("errorWrite")

-----------------------------------------------------------------------------
(* setStatus *)

\* the status an error asks for: 400 for a ValidationError, its own status when it
\* carries one, 500 otherwise
StatusOfError(e) ==
    IF e.kind = "ValidationError" THEN BadRequest
    ELSE IF e.statusCode # 0 THEN e.statusCode
    ELSE InternalServerError

\* C28: setStatus(c) affects the success response only.  When the request fails after
\* setStatus(c), the status of the error response is determined by the error alone (400,
\* the status the error carries, or 500), never by c; among several calls of setStatus in
\* a request that succeeds, the status of the last call is the one written.
C28_SetStatusOnlyOnSuccess ==
    /\ toolkitCall.method = "setStatus" => res.locals = toolkitCall.statusCode
    /\ toolkitCall.method = "none" => res.locals = 0
    /\ Happened("errorWrite") =>
          /\ res.status = StatusOfError(err)
          /\ log[Pos("errorWrite")].code = StatusOfError(err)
    /\ Happened("write") =>
          /\ log[Pos("write")].code = res.status
          /\ toolkitCall.method = "setStatus" => res.status = toolkitCall.statusCode
          /\ toolkitCall.method = "none" => res.status \in {OK, NoContent}

\* the handler called setStatus(201) and then threw an error without a status: 500
C28_Witness ==
    /\ pc = "failed"
    /\ Happened("handlerThrow")
    /\ toolkitCall.method = "setStatus"
    /\ toolkitCall.statusCode = 201
    /\ res.locals = 201
    /\ err.kind = "Error"
    /\ res.status = InternalServerError

-----------------------------------------------------------------------------
(* One response *)

\* C27: the status and the body of the response are written at most once per request: the
\* success write and the error write never both happen, also when an error is raised
\* after the success write (by a listener of `:afterResponse`); the error is then
\* forwarded and nothing more is written.
C27_WrittenAtMostOnce ==
    /\ Count("write") + Count("errorWrite") <= 1
    /\ Happened("listenerThrow") =>
          /\ Count("write") = 1
          /\ Pos("write") < Pos("listenerThrow")
          /\ Count("next") = 1
          /\ Pos("listenerThrow") < Pos("next")
          /\ res.status = log[Pos("write")].code
          /\ res.body = responseBody(result)
          /\ pc \in {"errorMiddleware", "passedOn"}

\* the response was written with the status set by the handler, a listener of
\* `:afterResponse` threw, and the error middleware has passed the error on
C27_Witness ==
    /\ pc = "passedOn"
    /\ Happened("listenerThrow")
    /\ Happened("nextAfterError")
    /\ res.status = 201
    /\ res.body = JsonBody({}, "jsonParsed")

-----------------------------------------------------------------------------
(* Two requests in flight *)

HappenedIn(r, type) == \E k \in 1..Len(r.log) : r.log[k].type = type

\* the state of a request is what its own calls made it: the status held for it is the
\* one of its last setStatus, its metadata is what its own hooks wrote, and its response
\* is the one of its own result, status and error
AsIfAlone(r) ==
    /\ r.toolkitCall.method = "none" => r.res.locals = 0 /\ r.res.cookies = <<>>
    /\ r.toolkitCall.method = "setStatus" => r.res.locals = r.toolkitCall.statusCode
    /\ r.toolkitCall.method = "setCookie" =>
          r.res.cookies[r.toolkitCall.name].call.value = r.toolkitCall.value
    /\ r.request.plugins =
          [n \in PluginNames |->
              IF \E k \in 1..Len(r.log) : r.log[k].type = "pluginsWrite" /\ r.log[k].data = n
              THEN "meta" ELSE "unset"]
    /\ HappenedIn(r, "write") =>
          /\ r.res.status = statusCode(r.res.locals, r.result)
          /\ r.res.body = responseBody(r.result)
    /\ HappenedIn(r, "errorWrite") => r.res.status = StatusOfError(r.err)

\* C25: two requests in flight share no mutable state: whatever the interleaving at their
\* suspension points, a step of one request (a setStatus, a cookie set, metadata written
\* by a hook, the response) leaves the status, the cookies, request.plugins and all the
\* rest of the other as they were, and the response of each is the one of its own calls.
C25_RequestsShareNoState ==
    [][ /\ \/ other' = other
           \/ other' = Current /\ Current' = other
        /\ LET running == Current'
               waiting == other'
           IN AsIfAlone(running) /\ AsIfAlone(waiting)
      ]_vars

\* both requests are in their handlers, each with its own status, cookies and metadata
C25_Witness ==
    /\ pc = "handlerRunning"
    /\ other.pc = "handlerRunning"
    /\ res.locals = 201
    /\ other.res.locals = 404
    /\ res.cookies = <<>>
    /\ other.res.cookies # <<>>
    /\ request.plugins # other.request.plugins

-----------------------------------------------------------------------------
(* Termination *)

\* C29: provided the hooks, the handler and the unsealing terminate, every request
\* eventually reaches a terminal outcome (the response finalized, or the request failed:
\* the error answered or, with the response already sent, passed on), and after it the
\* dispatcher takes no further step for the request, so the outcome is the only one.
C29_EveryRequestEnds ==
    /\ <>Terminal
    /\ [][~Terminal]_vars

\* two hooks ran, the handler returned, the response is written: nothing is enabled
C29_Witness ==
    /\ pc = "finalized"
    /\ Len(plugins) = 2
    /\ Count("hookEnd") = 2
    /\ Happened("write")
    /\ ~ENABLED NextListeners

====
